---------------------------- MODULE Spec2Model ----------------------------
(***************************************************************************)
(* Metropolis: a DAG job orchestrator.                                     *)
(*                                                                         *)
(*   - validation.py        validate_pipeline_dag (Kahn's algorithm)       *)
(*   - main.py              handle_pipeline_create, trigger_pipeline_run   *)
(*   - worker.py            run_worker, heartbeat                          *)
(*   - lua_scripts.py       COMPLETE_JOB_SCRIPT                            *)
(*   - janitor.py           zombie_job_checker, requeue_delayed_jobs       *)
(*                                                                         *)
(* The store (PostgreSQL through SQLAlchemy) and the broker (Redis) are    *)
(* modelled by their contents.  Every store commit and every broker call   *)
(* is one atomic step; the steps of different processes interleave.        *)
(***************************************************************************)
EXTENDS Integers, Sequences, FiniteSets, TLC

(***************************************************************************)
(* Bounds of the model.                                                    *)
(***************************************************************************)
MaxTasks == 3        \* tasks of a composed definition
MaxEdges == 3        \* dependency entries of a composed definition
MaxCrashes == 1      \* worker processes killed by the environment
MaxExpiries == 1     \* lease keys that run out of TTL
MaxTime == 10        \* last instant of the clock, in seconds
MaxRedeliveries == 1 \* starts of the run's jobs beyond their first and their retries
MaxInfraErrors == 1  \* broker calls that raise, per job

(***************************************************************************)
(* Program constants.                                                      *)
(***************************************************************************)
Range(s) == {s[i] : i \in 1..Len(s)}

MAX_RETRY == 3
RETRY_DELAY_BASE_SECONDS == 10

WorkerIds == <<"w1", "w2">>
Workers == Range(WorkerIds)
NoWorker == "none"
NoJob == 0
\* The status read for a job identifier that has no row in the store.
NoRow == "absent"

TaskNames == <<"a", "b", "c", "d", "e">>
UnknownTask == "x"
FailingTask == "step4"

Task(t, ds) == [task |-> t, deps |-> ds]

(***************************************************************************)
(* A definition is the ordered mapping task id -> dependency list of       *)
(* schemas.PipelineBase.definition: a sequence of Task records with        *)
(* distinct task ids, in the mapping's iteration order.                    *)
(***************************************************************************)
Keys(def) == {def[i].task : i \in 1..Len(def)}

IndexOf(def, t) == CHOOSE i \in 1..Len(def) : def[i].task = t

RECURSIVE SumLen(_, _)
SumLen(def, i) == IF i > Len(def) THEN 0 ELSE Len(def[i].deps) + SumLen(def, i + 1)

Count(s, x) == Cardinality({i \in 1..Len(s) : s[i] = x})


-----------------------------------------------------------------------------
(***************************************************************************)
(* validation.py: validate_pipeline_dag.                                   *)
(***************************************************************************)

\* Lines 22-25: the first (task, dependency), in iteration order, whose
\* dependency is no key of the definition; <<>> when there is none.
RECURSIVE FirstInvalid(_, _, _)
FirstInvalid(def, i, k) ==
    IF i > Len(def) THEN <<>>
    ELSE IF k > Len(def[i].deps) THEN FirstInvalid(def, i + 1, 1)
    ELSE IF def[i].deps[k] \notin Keys(def) THEN <<def[i].task, def[i].deps[k]>>
    ELSE FirstInvalid(def, i, k + 1)

\* Lines 19, 27: graph[dependency].append(task_id), tasks and their
\* dependencies visited in order.
RECURSIVE GraphOf(_, _, _, _)
GraphOf(def, i, k, g) ==
    IF i > Len(def) THEN g
    ELSE IF k > Len(def[i].deps) THEN GraphOf(def, i + 1, 1, g)
    ELSE GraphOf(def, i, k + 1,
                 [g EXCEPT ![def[i].deps[k]] = Append(@, def[i].task)])

\* Lines 20, 28: in_degree[task_id] += 1 for every dependency entry.
InDegreeOf(def) == [t \in Keys(def) |-> Len(def[IndexOf(def, t)].deps)]

\* Line 30: the tasks of in-degree 0, in the mapping's order.
RECURSIVE Roots(_, _, _)
Roots(def, deg, i) ==
    IF i > Len(def) THEN <<>>
    ELSE IF deg[def[i].task] = 0 THEN <<def[i].task>> \o Roots(def, deg, i + 1)
    ELSE Roots(def, deg, i + 1)

\* Lines 40-43: one pass over graph[current_task_id].
RECURSIVE Relax(_, _, _, _)
Relax(dependents, k, deg, queue) ==
    IF k > Len(dependents) THEN [deg |-> deg, queue |-> queue]
    ELSE LET t == dependents[k]
             d == [deg EXCEPT ![t] = @ - 1]
         IN  Relax(dependents, k + 1, d,
                   IF d[t] = 0 THEN Append(queue, t) ELSE queue)

\* Lines 35-43: the loop over the queue; the number of nodes popped.
RECURSIVE Kahn(_, _, _, _)
Kahn(graph, deg, queue, sorted_nodes_count) ==
    IF queue = <<>> THEN sorted_nodes_count
    ELSE LET r == Relax(graph[Head(queue)], 1, deg, Tail(queue))
         IN  Kahn(graph, r.deg, r.queue, sorted_nodes_count + 1)

Valid == [kind |-> "ok"]
InvalidDependency(t, d) == [kind |-> "invalid_dependency", task |-> t, dependency |-> d]
CycleNoRoots == [kind |-> "cycle", detail |-> "no root nodes found"]
CycleDetected == [kind |-> "cycle", detail |-> "a cycle was detected"]

\* A validator that keeps the no-roots test and drops the final count test.
validate_no_count_check(definition) ==
    LET bad == FirstInvalid(definition, 1, 1)
        deg == InDegreeOf(definition)
        queue == Roots(definition, deg, 1)
    IN  IF bad # <<>> THEN InvalidDependency(bad[1], bad[2])
        ELSE IF queue = <<>> /\ definition # <<>> THEN CycleNoRoots
        ELSE Valid

\* A validator that looks for cycles before it looks at the dependency names.
validate_cycle_first(definition) ==
    LET bad == FirstInvalid(definition, 1, 1)
        deg == InDegreeOf(definition)
        queue == Roots(definition, deg, 1)
    IN  IF queue = <<>> /\ definition # <<>> THEN CycleNoRoots
        ELSE IF bad # <<>> THEN InvalidDependency(bad[1], bad[2])
        ELSE Valid

validate_pipeline_dag(definition) ==
    LET bad == FirstInvalid(definition, 1, 1)
        graph == GraphOf(definition, 1, 1, [t \in Keys(definition) |-> <<>>])
        deg == InDegreeOf(definition)
        queue == Roots(definition, deg, 1)
    IN  IF bad # <<>> THEN InvalidDependency(bad[1], bad[2])
        ELSE IF queue = <<>> /\ definition # <<>> THEN CycleNoRoots
        ELSE IF Kahn(graph, deg, queue, 0) # Len(definition) THEN CycleDetected
        ELSE Valid


-----------------------------------------------------------------------------
(***************************************************************************)
(* State.                                                                  *)
(***************************************************************************)
VARIABLES
    \* the HTTP surface
    pipeline_in,        \* body of the POST /pipelines request
    phase,              \* "compose": the client writes the request; "sent"; "served"
    response,           \* last HTTP answer: [code, detail]
    \* the store
    pipelines,          \* pipelines table: sequence of [name, definition], id = index
    run_pipeline,       \* pipeline id of the run (0: no run)
    run_status,         \* status of the run ("NONE": no run)
    status,             \* job id -> JobStatus
    retry_count,        \* job id -> attempts that failed
    \* the broker
    ready_queue,        \* metropolis:ready_queue
    delayed_queue,      \* metropolis:delayed_queue, set of [job, due]
    dead_letter_queue,  \* metropolis:dead_letter_queue
    lock,               \* job id -> value of metropolis:job:<id>:lock (NoWorker: no key)
    deps_count,         \* metropolis:run:<id>:deps_count
    reverse_graph,      \* metropolis:run:<id>:reverse_graph
    jobs_count,         \* metropolis:run:<id>:jobs_count
    \* trigger_pipeline_run
    boot_pc, root_jobs,
    \* run_worker, per worker
    pc, job_id, loaded_retry,
    \* janitor
    jan_pc, running_job, jan_dirty, jobs_to_requeue, current_time,
    \* the environment
    now, crashes, expiries,
    \* history
    starts,             \* job id -> times a worker wrote RUNNING for it
    executions,         \* job id -> times its body ran
    success_writes,     \* job id -> times SUCCESS was committed for it
    script_calls,       \* job id -> completion script invocations made for it
    script_pushes,      \* job id -> pushes of it by the completion script
    not_before,         \* job id -> due time of its scheduled retry (0: none)
    zombie,             \* job id -> what became of it after its worker was killed
    infra_errors,       \* job id -> broker calls that raised while its lease was held
    heartbeat_reply     \* job id -> reply to the last PEXPIRE of its key (-1: none yet)

http_vars == <<pipeline_in, phase, response>>
store_vars == <<pipelines, run_pipeline, run_status, status, retry_count>>
broker_vars == <<ready_queue, delayed_queue, dead_letter_queue, lock, deps_count,
                 reverse_graph, jobs_count>>
boot_vars == <<boot_pc, root_jobs>>
worker_vars == <<pc, job_id, loaded_retry>>
jan_vars == <<jan_pc, running_job, jan_dirty, jobs_to_requeue, current_time>>
env_vars == <<now, crashes, expiries>>
hist_vars == <<starts, executions, success_writes, script_calls, script_pushes, not_before,
               zombie,
                   infra_errors, heartbeat_reply>>

vars == <<http_vars, store_vars, broker_vars, boot_vars, worker_vars, jan_vars,
          env_vars, hist_vars>>

\* The run's definition and its jobs: job i is the job of the i-th task.
RunDef == IF run_pipeline = 0 THEN <<>> ELSE pipelines[run_pipeline].definition
Jobs == 1..Len(status)
TaskOf(j) == RunDef[j].task
JobOfTask(t) == IndexOf(RunDef, t)
\* The parent jobs of job j, one per entry of its dependency list.
Parents(j) == [k \in 1..Len(RunDef[j].deps) |-> JobOfTask(RunDef[j].deps[k])]
ParentSet(j) == Range(Parents(j))

-----------------------------------------------------------------------------
(***************************************************************************)
(* The client composes a POST /pipelines body: a name and a definition     *)
(* within the bounds.  Task ids are added in the order of TaskNames (the   *)
(* ids are labels: every definition is one of these up to renaming).       *)
(***************************************************************************)
NoResponse == [code |-> 0, detail |-> "none"]
PipelineNames == {"nightly", "hourly"}
ExistingPipeline == [name |-> "nightly", definition |-> <<Task("a", <<>>)>>]
DepNames == {TaskNames[i] : i \in 1..MaxTasks} \cup {UnknownTask}

AddTask ==
    /\ phase = "compose"
    /\ Len(pipeline_in.definition) < MaxTasks
    /\ pipeline_in' = [pipeline_in EXCEPT !.definition =
           Append(@, Task(TaskNames[Len(pipeline_in.definition) + 1], <<>>))]
    /\ UNCHANGED <<phase, response, store_vars, broker_vars, boot_vars, worker_vars,
                   jan_vars, env_vars, hist_vars>>

AddDependency(i, d) ==
    /\ phase = "compose"
    /\ i \in 1..Len(pipeline_in.definition)
    /\ SumLen(pipeline_in.definition, 1) < MaxEdges
    /\ pipeline_in' = [pipeline_in EXCEPT !.definition[i].deps = Append(@, d)]
    /\ UNCHANGED <<phase, response, store_vars, broker_vars, boot_vars, worker_vars,
                   jan_vars, env_vars, hist_vars>>

(***************************************************************************)
(* crud.py: get_pipeline_by_name, create_pipeline.                         *)
(***************************************************************************)
get_pipeline_by_name(db, name) == {i \in 1..Len(db) : db[i].name = name}

create_pipeline(db, pipeline) ==
    Append(db, [name |-> pipeline.name, definition |-> pipeline.definition])

(***************************************************************************)
(* main.py: handle_pipeline_create, POST /pipelines.                       *)
(***************************************************************************)
handle_pipeline_create ==
    /\ phase = "compose"
    /\ phase' = "served"
    /\ LET verdict == validate_pipeline_dag(pipeline_in.definition)
       IN  IF get_pipeline_by_name(pipelines, pipeline_in.name) # {}
           THEN /\ response' = [code |-> 400, detail |-> [kind |-> "already_exists"]]
                /\ pipelines' = pipelines
           ELSE IF verdict # Valid
           THEN /\ response' = [code |-> 400, detail |-> verdict]
                /\ pipelines' = pipelines
           ELSE /\ response' = [code |-> 201, detail |-> Valid]
                /\ pipelines' = create_pipeline(pipelines, pipeline_in)
    /\ UNCHANGED <<pipeline_in, run_pipeline, run_status, status, retry_count,
                   broker_vars, boot_vars, worker_vars, jan_vars, env_vars, hist_vars>>

-----------------------------------------------------------------------------
(***************************************************************************)
(* main.py: trigger_pipeline_run, POST /pipelines/{pipeline_id}/run.       *)
(***************************************************************************)
Zeros(n) == [j \in 1..n |-> 0]

\* The adjacency keyed the other way round: each job lists its parents.
RECURSIVE forward_graph(_, _, _, _)
forward_graph(def, i, k, g) ==
    IF i > Len(def) THEN g
    ELSE IF k > Len(def[i].deps) THEN forward_graph(def, i + 1, 1, g)
    ELSE forward_graph(def, i, k + 1,
                       [g EXCEPT ![i] = Append(@, IndexOf(def, def[i].deps[k]))])

\* Lines 122-131: reverse_graph[parent].append(job_id), tasks and their
\* dependencies visited in order; one entry per job, keyed by job id.
RECURSIVE ReverseGraphOf(_, _, _, _)
ReverseGraphOf(def, i, k, g) ==
    IF i > Len(def) THEN g
    ELSE IF k > Len(def[i].deps) THEN ReverseGraphOf(def, i + 1, 1, g)
    ELSE ReverseGraphOf(def, i, k + 1,
                        [g EXCEPT ![IndexOf(def, def[i].deps[k])] = Append(@, i)])

\* The jobs whose task no task depends on.
RECURSIVE leaf_jobs(_, _)
leaf_jobs(def, i) ==
    IF i > Len(def) THEN <<>>
    ELSE IF \A c \in 1..Len(def) : def[i].task \notin Range(def[c].deps)
         THEN <<i>> \o leaf_jobs(def, i + 1)
         ELSE leaf_jobs(def, i + 1)

\* Lines 141-144: the jobs whose task has no dependencies.
RECURSIVE RootJobsOf(_, _)
RootJobsOf(def, i) ==
    IF i > Len(def) THEN <<>>
    ELSE IF def[i].deps = <<>> THEN <<i>> \o RootJobsOf(def, i + 1)
    ELSE RootJobsOf(def, i + 1)

\* Lines 103-109: the pipeline is looked up; the run and one job per task are
\* persisted, all PENDING (create_pipeline_run).
create_pipeline_run(pipeline_id) ==
    LET n == Len(pipelines[pipeline_id].definition)
    IN  /\ run_pipeline' = pipeline_id
        /\ run_status' = "PENDING"
        /\ status' = [j \in 1..n |-> "PENDING"]
        /\ retry_count' = Zeros(n)
        /\ lock' = [j \in 1..n |-> NoWorker]
        /\ deps_count' = Zeros(n)
        /\ reverse_graph' = [j \in 1..n |-> <<>>]
        /\ starts' = Zeros(n)
        /\ executions' = Zeros(n)
        /\ success_writes' = Zeros(n)
        /\ script_calls' = Zeros(n)
        /\ script_pushes' = Zeros(n)
        /\ not_before' = Zeros(n)
        /\ zombie' = [j \in 1..n |-> "no"]
        /\ infra_errors' = Zeros(n)
        /\ heartbeat_reply' = [j \in 1..n |-> -1]

TriggerLookup(pipeline_id) ==
    /\ phase = "served"
    /\ boot_pc = "none"
    /\ IF pipeline_id \in 1..Len(pipelines)
       THEN /\ create_pipeline_run(pipeline_id)
            /\ boot_pc' = "created"
            /\ response' = response
       ELSE /\ response' = [code |-> 404, detail |-> [kind |-> "not_found"]]
            /\ boot_pc' = "rejected"
            /\ UNCHANGED <<run_pipeline, run_status, status, retry_count, lock,
                           deps_count, reverse_graph, hist_vars>>
    /\ UNCHANGED <<pipeline_in, phase, pipelines, ready_queue, delayed_queue,
                   dead_letter_queue, jobs_count, root_jobs, worker_vars, jan_vars,
                   env_vars>>

\* A bootstrap that counts each parent of a task once, however often listed.
seed_broker_distinct_deps ==
    /\ boot_pc = "created"
    /\ jobs_count' = Len(RunDef)
    /\ deps_count' = [j \in Jobs |-> Cardinality(Range(RunDef[j].deps))]
    /\ reverse_graph' = ReverseGraphOf(RunDef, 1, 1, [j \in Jobs |-> <<>>])
    /\ root_jobs' = RootJobsOf(RunDef, 1)
    /\ boot_pc' = "seeded"
    /\ UNCHANGED <<http_vars, store_vars, ready_queue, delayed_queue, dead_letter_queue,
                   lock, worker_vars, jan_vars, env_vars, hist_vars>>

\* Lines 114-144: one broker transaction writes jobs_count, deps_count and
\* reverse_graph; the root jobs are collected.
seed_broker ==
    /\ boot_pc = "created"
    /\ jobs_count' = Len(RunDef)
    /\ deps_count' = [j \in Jobs |-> Len(RunDef[j].deps)]
    /\ reverse_graph' = ReverseGraphOf(RunDef, 1, 1, [j \in Jobs |-> <<>>])
    /\ root_jobs' = RootJobsOf(RunDef, 1)
    /\ boot_pc' = "seeded"
    /\ UNCHANGED <<http_vars, store_vars, ready_queue, delayed_queue, dead_letter_queue,
                   lock, worker_vars, jan_vars, env_vars, hist_vars>>

\* Lines 147-149, one iteration: the root is pushed; its QUEUED status is
\* pending in the session until the commit.
push_root ==
    /\ boot_pc = "seeded"
    /\ root_jobs # <<>>
    /\ ready_queue' = Append(ready_queue, Head(root_jobs))
    /\ root_jobs' = Tail(root_jobs)
    /\ UNCHANGED <<http_vars, store_vars, delayed_queue, dead_letter_queue, lock,
                   deps_count, reverse_graph, jobs_count, boot_pc, worker_vars,
                   jan_vars, env_vars, hist_vars>>

\* Lines 152-158: the commit writes QUEUED for every root and RUNNING for the run.
commit_run ==
    /\ boot_pc = "seeded"
    /\ root_jobs = <<>>
    /\ status' = [j \in Jobs |-> IF RunDef[j].deps = <<>> THEN "QUEUED" ELSE status[j]]
    /\ run_status' = "RUNNING"
    /\ boot_pc' = "done"
    /\ response' = [code |-> 200, detail |-> [kind |-> "run"]]
    /\ UNCHANGED <<pipeline_in, phase, pipelines, run_pipeline, retry_count, broker_vars,
                   root_jobs, worker_vars, jan_vars, env_vars, hist_vars>>

trigger_pipeline_run ==
    \/ \E pipeline_id \in 1..2 : TriggerLookup(pipeline_id)
    \/ seed_broker
    \/ push_root
    \/ commit_run

-----------------------------------------------------------------------------
(***************************************************************************)
(* lua_scripts.py: COMPLETE_JOB_SCRIPT.  One call of the script is one     *)
(* step of the broker.  ARGV is visited in order: HINCRBY by -1, and the   *)
(* identifier is collected when the new value is 0; the collected ones are *)
(* pushed to the tail of the ready list.                                   *)
(***************************************************************************)
RECURSIVE ScriptLoop(_, _, _, _)
ScriptLoop(argv, i, deps_count_hash, newly_ready_jobs) ==
    IF i > Len(argv) THEN [deps |-> deps_count_hash, newly |-> newly_ready_jobs]
    ELSE LET downstream_job_id == argv[i]
             new_dep_count == deps_count_hash[downstream_job_id] - 1
         IN  ScriptLoop(argv, i + 1,
                        [deps_count_hash EXCEPT ![downstream_job_id] = new_dep_count],
                        IF new_dep_count = 0
                        THEN Append(newly_ready_jobs, downstream_job_id)
                        ELSE newly_ready_jobs)

\* A script that pushes whenever it observes a counter at or below zero.
RECURSIVE ScriptLoopObserveZero(_, _, _, _)
ScriptLoopObserveZero(argv, i, deps_count_hash, newly_ready_jobs) ==
    IF i > Len(argv) THEN [deps |-> deps_count_hash, newly |-> newly_ready_jobs]
    ELSE LET downstream_job_id == argv[i]
             new_dep_count == deps_count_hash[downstream_job_id] - 1
         IN  ScriptLoopObserveZero(argv, i + 1,
                        [deps_count_hash EXCEPT ![downstream_job_id] = new_dep_count],
                        IF new_dep_count <= 0
                        THEN Append(newly_ready_jobs, downstream_job_id)
                        ELSE newly_ready_jobs)

\* A script that takes each identifier of ARGV once, however often it is listed.
RECURSIVE ScriptLoopDistinct(_, _, _, _)
ScriptLoopDistinct(argv, i, deps_count_hash, newly_ready_jobs) ==
    IF i > Len(argv) THEN [deps |-> deps_count_hash, newly |-> newly_ready_jobs]
    ELSE IF \E k \in 1..(i - 1) : argv[k] = argv[i]
         THEN ScriptLoopDistinct(argv, i + 1, deps_count_hash, newly_ready_jobs)
         ELSE LET downstream_job_id == argv[i]
                  new_dep_count == deps_count_hash[downstream_job_id] - 1
              IN  ScriptLoopDistinct(argv, i + 1,
                        [deps_count_hash EXCEPT ![downstream_job_id] = new_dep_count],
                        IF new_dep_count = 0
                        THEN Append(newly_ready_jobs, downstream_job_id)
                        ELSE newly_ready_jobs)

complete_job_distinct(deps_count_hash, ready, argv) ==
    LET r == ScriptLoopDistinct(argv, 1, deps_count_hash, <<>>)
    IN  [deps |-> r.deps, ready |-> ready \o r.newly, newly |-> r.newly]

\* A script that keeps a counter from going below zero and pushes whenever
\* the counter is zero after the call.
RECURSIVE ScriptLoopClampZero(_, _, _, _)
ScriptLoopClampZero(argv, i, deps_count_hash, newly_ready_jobs) ==
    IF i > Len(argv) THEN [deps |-> deps_count_hash, newly |-> newly_ready_jobs]
    ELSE LET downstream_job_id == argv[i]
             new_dep_count == IF deps_count_hash[downstream_job_id] > 0
                              THEN deps_count_hash[downstream_job_id] - 1
                              ELSE 0
         IN  ScriptLoopClampZero(argv, i + 1,
                        [deps_count_hash EXCEPT ![downstream_job_id] = new_dep_count],
                        IF new_dep_count = 0
                        THEN Append(newly_ready_jobs, downstream_job_id)
                        ELSE newly_ready_jobs)

complete_job_clamp_zero(deps_count_hash, ready, argv) ==
    LET r == ScriptLoopClampZero(argv, 1, deps_count_hash, <<>>)
    IN  [deps |-> r.deps, ready |-> ready \o r.newly, newly |-> r.newly]

complete_job_observe_zero(deps_count_hash, ready, argv) ==
    LET r == ScriptLoopObserveZero(argv, 1, deps_count_hash, <<>>)
    IN  [deps |-> r.deps, ready |-> ready \o r.newly, newly |-> r.newly]

COMPLETE_JOB_SCRIPT(deps_count_hash, ready, argv) ==
    LET r == ScriptLoop(argv, 1, deps_count_hash, <<>>)
    IN  [deps |-> r.deps, ready |-> ready \o r.newly, newly |-> r.newly]

-----------------------------------------------------------------------------
(***************************************************************************)
(* worker.py: run_worker, one loop iteration of worker w.                  *)
(*   idle -> popped -> locked -> running -> completed -> decr              *)
(*        -> (mark_run) -> cleanup -> idle          on success             *)
(*   running -> failed -> cleanup -> idle           when the body raises   *)
(***************************************************************************)
\* Worker processes are interchangeable: of the workers blocked in BLPOP, the
\* first in WorkerIds is taken to be the one served.
Served(w) ==
    /\ pc[w] = "idle"
    /\ \A i, k \in 1..Len(WorkerIds) :
           (WorkerIds[k] = w /\ i < k) => pc[WorkerIds[i]] # "idle"

\* The model follows every job through its first start and one start per
\* retry the code grants, and the run through MaxRedeliveries starts more.
Min(a, b) == IF a < b THEN a ELSE b
StartBudget(j) == 1 + Min(retry_count[j], MAX_RETRY)

RECURSIVE Redeliveries(_)
Redeliveries(j) ==
    IF j > Len(starts) THEN 0
    ELSE (IF starts[j] > StartBudget(j) THEN starts[j] - StartBudget(j) ELSE 0)
         + Redeliveries(j + 1)

\* Line 70: BLPOP.
Pop(w) ==
    /\ Served(w)
    /\ ready_queue # <<>>
    /\ \/ starts[Head(ready_queue)] < StartBudget(Head(ready_queue))
       \/ Redeliveries(1) < MaxRedeliveries
    /\ job_id' = [job_id EXCEPT ![w] = Head(ready_queue)]
    /\ ready_queue' = Tail(ready_queue)
    /\ pc' = [pc EXCEPT ![w] = "popped"]
    /\ UNCHANGED <<http_vars, store_vars, delayed_queue, dead_letter_queue, lock,
                   deps_count, reverse_graph, jobs_count, boot_vars, loaded_retry,
                   jan_vars, env_vars, hist_vars>>

\* Lines 78-80 and 170-177: SET NX.  When the key exists the worker leaves by
\* `continue` with job = None; the finally block evaluates job.id for its log
\* line, which raises AttributeError outside every handler: the process ends,
\* and the delete of line 177 is not reached.
AcquireLease(w) ==
    /\ pc[w] = "popped"
    /\ IF lock[job_id[w]] = NoWorker
       THEN /\ lock' = [lock EXCEPT ![job_id[w]] = w]
            /\ pc' = [pc EXCEPT ![w] = "locked"]
            /\ job_id' = job_id
       ELSE /\ lock' = lock
            /\ pc' = [pc EXCEPT ![w] = "dead"]
            /\ job_id' = [job_id EXCEPT ![w] = NoJob]
    /\ UNCHANGED <<http_vars, store_vars, ready_queue, delayed_queue, dead_letter_queue,
                   deps_count, reverse_graph, jobs_count, boot_vars, loaded_retry,
                   jan_vars, env_vars, hist_vars>>

\* Lines 85-108: the heartbeat thread starts; the job row is loaded, RUNNING
\* is committed, and the row (with retry_count) is read back for the body.
\* Lines 89-91 and 170-177: when the query finds no row the worker leaves by
\* `continue` with job = None; the finally block stops the heartbeat and then
\* evaluates job.id for its log line, which raises AttributeError outside
\* every handler: the process ends before the delete of line 177 and the
\* close of line 180.
StartTask(w) ==
    /\ pc[w] = "locked"
    /\ IF status[job_id[w]] = NoRow
       THEN /\ pc' = [pc EXCEPT ![w] = "dead"]
            /\ job_id' = [job_id EXCEPT ![w] = NoJob]
            /\ UNCHANGED <<status, loaded_retry, starts>>
       ELSE /\ status' = [status EXCEPT ![job_id[w]] = "RUNNING"]
            /\ loaded_retry' = [loaded_retry EXCEPT ![w] = retry_count[job_id[w]]]
            /\ starts' = [starts EXCEPT ![job_id[w]] = @ + 1]
            /\ pc' = [pc EXCEPT ![w] = "running"]
            /\ job_id' = job_id
    /\ UNCHANGED <<http_vars, pipelines, run_pipeline, run_status, retry_count,
                   broker_vars, boot_vars, jan_vars, env_vars, executions,
                   success_writes, script_calls, script_pushes, not_before, zombie,
                   infra_errors, heartbeat_reply>>

\* Lines 110-125: the body runs (it raises for task 'step4' and for no other);
\* then HGET of the reverse graph and the completion script.
RunAndComplete(w) ==
    /\ pc[w] = "running"
    /\ TaskOf(job_id[w]) # FailingTask
    /\ LET downstream_job_ids == reverse_graph[job_id[w]]
           r == COMPLETE_JOB_SCRIPT(deps_count, ready_queue, downstream_job_ids)
       IN  /\ deps_count' = r.deps
           /\ ready_queue' = r.ready
           /\ script_pushes' = [j \in Jobs |-> script_pushes[j] + Count(r.newly, j)]
    /\ executions' = [executions EXCEPT ![job_id[w]] = @ + 1]
    /\ script_calls' = [script_calls EXCEPT ![job_id[w]] = @ + 1]
    /\ pc' = [pc EXCEPT ![w] = "completed"]
    /\ UNCHANGED <<http_vars, store_vars, delayed_queue, dead_letter_queue, lock,
                   reverse_graph, jobs_count, boot_vars, job_id, loaded_retry, jan_vars,
                   env_vars, starts, success_writes, not_before, zombie,
                   infra_errors, heartbeat_reply>>

\* Lines 127-128.
CommitSuccess(w) ==
    /\ pc[w] = "completed"
    /\ status' = [status EXCEPT ![job_id[w]] = "SUCCESS"]
    /\ success_writes' = [success_writes EXCEPT ![job_id[w]] = @ + 1]
    /\ pc' = [pc EXCEPT ![w] = "decr"]
    /\ UNCHANGED <<http_vars, pipelines, run_pipeline, run_status, retry_count,
                   broker_vars, boot_vars, job_id, loaded_retry, jan_vars, env_vars,
                   starts, executions, script_calls, script_pushes, not_before, zombie,
                   infra_errors, heartbeat_reply>>

\* Lines 132-137: DECR of jobs_count; the run is marked only on 0.
DecrJobsRemaining(w) ==
    /\ pc[w] = "decr"
    /\ jobs_count' = jobs_count - 1
    /\ pc' = [pc EXCEPT ![w] = IF jobs_count - 1 = 0 THEN "mark_run" ELSE "cleanup"]
    /\ UNCHANGED <<http_vars, store_vars, ready_queue, delayed_queue, dead_letter_queue,
                   lock, deps_count, reverse_graph, boot_vars, job_id, loaded_retry,
                   jan_vars, env_vars, hist_vars>>

\* Lines 142-143.
MarkRunSuccess(w) ==
    /\ pc[w] = "mark_run"
    /\ run_status' = "SUCCESS"
    /\ pc' = [pc EXCEPT ![w] = "cleanup"]
    /\ UNCHANGED <<http_vars, pipelines, run_pipeline, status, retry_count, broker_vars,
                   boot_vars, job_id, loaded_retry, jan_vars, env_vars, hist_vars>>

\* Lines 110-111 and 145-163: the body raises; the handler increments the
\* loaded retry_count and makes its broker call (LPUSH to the dead-letter
\* list, or ZADD into the delayed set); the store changes wait for the commit.
RunAndFail(w) ==
    /\ pc[w] = "running"
    /\ TaskOf(job_id[w]) = FailingTask
    /\ executions' = [executions EXCEPT ![job_id[w]] = @ + 1]
    /\ loaded_retry' = [loaded_retry EXCEPT ![w] = @ + 1]
    /\ IF loaded_retry[w] + 1 > MAX_RETRY
       THEN /\ dead_letter_queue' = <<job_id[w]>> \o dead_letter_queue
            /\ UNCHANGED <<delayed_queue, not_before>>
       ELSE LET delay == RETRY_DELAY_BASE_SECONDS * (2 ^ (loaded_retry[w] + 1 - 1))
                retry_time_stamp == now + delay
            IN  /\ delayed_queue' = {e \in delayed_queue : e.job # job_id[w]}
                                    \cup {[job |-> job_id[w], due |-> retry_time_stamp]}
                /\ not_before' = [not_before EXCEPT ![job_id[w]] = retry_time_stamp]
                /\ UNCHANGED dead_letter_queue
    /\ pc' = [pc EXCEPT ![w] = "failed"]
    /\ UNCHANGED <<http_vars, store_vars, ready_queue, lock, deps_count, reverse_graph,
                   jobs_count, boot_vars, job_id, jan_vars, env_vars, starts,
                   success_writes, script_calls, script_pushes, zombie,
                   infra_errors, heartbeat_reply>>

\* Line 164: the handler's commit writes retry_count and, past the bound,
\* FAILED for the job and for the run.  Below the bound the status is not
\* assigned: it stays as it is in the store.
CommitFailure(w) ==
    /\ pc[w] = "failed"
    /\ retry_count' = [retry_count EXCEPT ![job_id[w]] = loaded_retry[w]]
    /\ IF loaded_retry[w] > MAX_RETRY
       THEN /\ status' = [status EXCEPT ![job_id[w]] = "FAILED"]
            /\ run_status' = "FAILED"
       ELSE UNCHANGED <<status, run_status>>
    /\ pc' = [pc EXCEPT ![w] = "cleanup"]
    /\ UNCHANGED <<http_vars, pipelines, run_pipeline, broker_vars, boot_vars, job_id,
                   loaded_retry, jan_vars, env_vars, hist_vars>>

\* RunAndFail in its two steps.  Lines 110-111 and 145-161: the body raises,
\* the handler increments the loaded retry_count and, below the bound, reads
\* the clock for retry_time_stamp.
FailAndReadClock(w) ==
    /\ pc[w] = "running"
    /\ TaskOf(job_id[w]) = FailingTask
    /\ executions' = [executions EXCEPT ![job_id[w]] = @ + 1]
    /\ loaded_retry' = [loaded_retry EXCEPT ![w] = @ + 1]
    /\ IF loaded_retry[w] + 1 > MAX_RETRY
       THEN UNCHANGED not_before
       ELSE LET delay == RETRY_DELAY_BASE_SECONDS * (2 ^ (loaded_retry[w] + 1 - 1))
                retry_time_stamp == now + delay
            IN  not_before' = [not_before EXCEPT ![job_id[w]] = retry_time_stamp]
    /\ pc' = [pc EXCEPT ![w] = "stamped"]
    /\ UNCHANGED <<http_vars, store_vars, broker_vars, boot_vars, job_id, jan_vars,
                   env_vars, starts, success_writes, script_calls, script_pushes, zombie,
                   infra_errors, heartbeat_reply>>

\* Lines 157 and 163: the handler's broker call, LPUSH to the dead-letter list
\* or ZADD with the retry_time_stamp computed before.
ScheduleRetry(w) ==
    /\ pc[w] = "stamped"
    /\ IF loaded_retry[w] > MAX_RETRY
       THEN /\ dead_letter_queue' = <<job_id[w]>> \o dead_letter_queue
            /\ UNCHANGED delayed_queue
       ELSE /\ delayed_queue' = {e \in delayed_queue : e.job # job_id[w]}
                                \cup {[job |-> job_id[w], due |-> not_before[job_id[w]]]}
            /\ UNCHANGED dead_letter_queue
    /\ pc' = [pc EXCEPT ![w] = "failed"]
    /\ UNCHANGED <<http_vars, store_vars, ready_queue, lock, deps_count, reverse_graph,
                   jobs_count, boot_vars, job_id, loaded_retry, jan_vars, env_vars,
                   hist_vars>>

\* Lines 116-133 and 145-163: a broker call of the try block raises (the HGET
\* or the script of lines 119-124 before it has run, or the DECR of line 133)
\* and the broker answers again afterwards; `except Exception` handles it as
\* it handles a raising body.
InfraError(w) ==
    /\ \/ pc[w] = "running" /\ TaskOf(job_id[w]) # FailingTask
       \/ pc[w] = "decr"
    /\ infra_errors[job_id[w]] < MaxInfraErrors
    /\ infra_errors' = [infra_errors EXCEPT ![job_id[w]] = @ + 1]
    /\ executions' = IF pc[w] = "running"
                     THEN [executions EXCEPT ![job_id[w]] = @ + 1]
                     ELSE executions
    /\ loaded_retry' = [loaded_retry EXCEPT ![w] = @ + 1]
    /\ IF loaded_retry[w] + 1 > MAX_RETRY
       THEN /\ dead_letter_queue' = <<job_id[w]>> \o dead_letter_queue
            /\ UNCHANGED <<delayed_queue, not_before>>
       ELSE LET delay == RETRY_DELAY_BASE_SECONDS * (2 ^ (loaded_retry[w] + 1 - 1))
                retry_time_stamp == now + delay
            IN  /\ delayed_queue' = {e \in delayed_queue : e.job # job_id[w]}
                                    \cup {[job |-> job_id[w], due |-> retry_time_stamp]}
                /\ not_before' = [not_before EXCEPT ![job_id[w]] = retry_time_stamp]
                /\ UNCHANGED dead_letter_queue
    /\ pc' = [pc EXCEPT ![w] = "failed"]
    /\ UNCHANGED <<http_vars, store_vars, ready_queue, lock, deps_count, reverse_graph,
                   jobs_count, boot_vars, job_id, jan_vars, env_vars, starts,
                   success_writes, script_calls, script_pushes, zombie,
                   heartbeat_reply>>

\* Lines 170-180: the heartbeat is stopped and joined, the lease key is
\* deleted whatever its value, the session is closed.
Cleanup(w) ==
    /\ pc[w] = "cleanup"
    /\ lock' = [lock EXCEPT ![job_id[w]] = NoWorker]
    /\ pc' = [pc EXCEPT ![w] = "idle"]
    /\ job_id' = [job_id EXCEPT ![w] = NoJob]
    /\ loaded_retry' = [loaded_retry EXCEPT ![w] = 0]
    /\ UNCHANGED <<http_vars, store_vars, ready_queue, delayed_queue, dead_letter_queue,
                   deps_count, reverse_graph, jobs_count, boot_vars, jan_vars, env_vars,
                   hist_vars>>

\* Lines 69-143: the loop's try block.
try_block(w) ==
    \/ Pop(w)
    \/ AcquireLease(w)
    \/ StartTask(w)
    \/ RunAndComplete(w)
    \/ CommitSuccess(w)
    \/ DecrJobsRemaining(w)
    \/ MarkRunSuccess(w)

\* Lines 145-168: the except block.
except_block(w) == RunAndFail(w) \/ CommitFailure(w)

run_worker(w) == try_block(w) \/ except_block(w) \/ Cleanup(w)

-----------------------------------------------------------------------------
(***************************************************************************)
(* janitor.py: run_janitor; one tick is zombie_job_checker followed by     *)
(* requeue_delayed_jobs.                                                   *)
(***************************************************************************)
\* Lines 23-28: the query for RUNNING jobs.
JanitorQuery ==
    /\ jan_pc = "sleep"
    /\ running_job' = {j \in Jobs : status[j] = "RUNNING"}
    /\ jan_dirty' = {}
    /\ jan_pc' = IF {j \in Jobs : status[j] = "RUNNING"} = {} THEN "delayed" ELSE "scan"
    /\ zombie' = [j \in Jobs |-> IF zombie[j] # "expired" THEN zombie[j]
                                  ELSE IF status[j] = "RUNNING" THEN "seen" ELSE "missed"]
    /\ UNCHANGED <<http_vars, store_vars, broker_vars, boot_vars, worker_vars,
                   jobs_to_requeue, current_time, env_vars, starts, executions,
                   success_writes, script_calls, script_pushes, not_before,
                   infra_errors, heartbeat_reply>>

\* Lines 32-39, one iteration: EXISTS on the lease key; when it is absent the
\* job is marked QUEUED in the session and pushed to the ready list.
JanitorCheck(j) ==
    /\ jan_pc = "scan"
    /\ j \in running_job
    /\ running_job' = running_job \ {j}
    /\ IF lock[j] = NoWorker
       THEN /\ jan_dirty' = jan_dirty \cup {j}
            /\ ready_queue' = Append(ready_queue, j)
       ELSE UNCHANGED <<jan_dirty, ready_queue>>
    /\ zombie' = [zombie EXCEPT ![j] = IF @ # "seen" THEN @
                                       ELSE IF lock[j] = NoWorker THEN "requeued"
                                       ELSE "missed"]
    /\ UNCHANGED <<http_vars, store_vars, delayed_queue, dead_letter_queue, lock,
                   deps_count, reverse_graph, jobs_count, boot_vars, worker_vars,
                   jan_pc, jobs_to_requeue, current_time, env_vars, starts, executions,
                   success_writes, script_calls, script_pushes, not_before,
                   infra_errors, heartbeat_reply>>

\* Line 40: the commit writes QUEUED for the marked jobs.
JanitorCommit ==
    /\ jan_pc = "scan"
    /\ running_job = {}
    /\ status' = [j \in Jobs |-> IF j \in jan_dirty THEN "QUEUED" ELSE status[j]]
    /\ jan_dirty' = {}
    /\ jan_pc' = "delayed"
    /\ UNCHANGED <<http_vars, pipelines, run_pipeline, run_status, retry_count,
                   broker_vars, boot_vars, worker_vars, running_job, jobs_to_requeue,
                   current_time, env_vars, hist_vars>>

\* ZRANGEBYSCORE 0 t: the members due at t, by score and then by member.
RECURSIVE SortDue(_)
SortDue(entries) ==
    IF entries = {} THEN <<>>
    ELSE LET first == CHOOSE e \in entries : \A f \in entries :
                          \/ e.due < f.due
                          \/ (e.due = f.due /\ e.job <= f.job)
         IN  <<first.job>> \o SortDue(entries \ {first})

zrangebyscore(zset, t) == SortDue({e \in zset : e.due <= t})

\* Lines 54-58: the clock is read and the due members are listed.
ReadDelayed ==
    /\ jan_pc = "delayed"
    /\ IF zrangebyscore(delayed_queue, now) = <<>>
       THEN /\ jan_pc' = "sleep"
            /\ UNCHANGED <<jobs_to_requeue, current_time>>
       ELSE /\ jan_pc' = "requeue"
            /\ jobs_to_requeue' = zrangebyscore(delayed_queue, now)
            /\ current_time' = now
    /\ UNCHANGED <<http_vars, store_vars, broker_vars, boot_vars, worker_vars,
                   running_job, jan_dirty, env_vars, hist_vars>>

\* Lines 63-66: one broker transaction pushes the listed members and removes
\* every member with score <= current_time.
RequeueDelayed ==
    /\ jan_pc = "requeue"
    /\ ready_queue' = ready_queue \o jobs_to_requeue
    /\ delayed_queue' = {e \in delayed_queue : e.due > current_time}
    /\ jobs_to_requeue' = <<>>
    /\ current_time' = 0
    /\ jan_pc' = "sleep"
    /\ UNCHANGED <<http_vars, store_vars, dead_letter_queue, lock, deps_count,
                   reverse_graph, jobs_count, boot_vars, worker_vars, running_job,
                   jan_dirty, env_vars, hist_vars>>

zombie_job_checker == JanitorQuery \/ (\E j \in Jobs : JanitorCheck(j)) \/ JanitorCommit

requeue_delayed_jobs == ReadDelayed \/ RequeueDelayed

run_janitor == zombie_job_checker \/ requeue_delayed_jobs

-----------------------------------------------------------------------------
(***************************************************************************)
(* The environment: the clock, process kills, and lease keys running out   *)
(* of TTL.                                                                 *)
(***************************************************************************)
\* worker.py lines 48-55, 85-86, 171-173: a heartbeat thread renews the key of
\* job j while a worker is between acquiring its lease and its cleanup.
Heartbeating(j) ==
    \E w \in Workers : job_id[w] = j /\ pc[w] \notin {"idle", "popped", "dead"}

\* Redis PEXPIRE: the TTL of an existing key is set anew and the reply is 1;
\* a key that does not exist is left absent and the reply is 0.
pexpire(keys, j) ==
    [keys |-> keys, reply |-> IF keys[j] # NoWorker THEN 1 ELSE 0]

\* A renewal that writes the key with a TTL, like SET with PX.
set_px(keys, j, w) == [keys |-> [keys EXCEPT ![j] = w], reply |-> 1]

heartbeat_resurrects(w) ==
    /\ pc[w] \in {"running", "completed", "decr", "mark_run", "stamped", "failed",
                  "cleanup"}
    /\ lock' = set_px(lock, job_id[w], w).keys
    /\ heartbeat_reply' = [heartbeat_reply EXCEPT ![job_id[w]] =
                              set_px(lock, job_id[w], w).reply]
    /\ UNCHANGED <<http_vars, store_vars, ready_queue, delayed_queue, dead_letter_queue,
                   deps_count, reverse_graph, jobs_count, boot_vars, worker_vars, jan_vars,
                   env_vars, starts, executions, success_writes, script_calls,
                   script_pushes, not_before, zombie, infra_errors>>

\* worker.py lines 48-55: one round of the heartbeat thread of worker w, which
\* runs from its start at lines 85-86 until the finally block has set the
\* stop event and joined it (lines 171-173), before the delete of line 177.
heartbeat(w) ==
    /\ pc[w] \in {"running", "completed", "decr", "mark_run", "stamped", "failed",
                  "cleanup"}
    /\ lock' = pexpire(lock, job_id[w]).keys
    /\ heartbeat_reply' = [heartbeat_reply EXCEPT ![job_id[w]] =
                              pexpire(lock, job_id[w]).reply]
    /\ UNCHANGED <<http_vars, store_vars, ready_queue, delayed_queue, dead_letter_queue,
                   deps_count, reverse_graph, jobs_count, boot_vars, worker_vars, jan_vars,
                   env_vars, starts, executions, success_writes, script_calls,
                   script_pushes, not_before, zombie, infra_errors>>

Tick ==
    /\ now + RETRY_DELAY_BASE_SECONDS <= MaxTime
    /\ now' = now + RETRY_DELAY_BASE_SECONDS
    /\ UNCHANGED <<http_vars, store_vars, broker_vars, boot_vars, worker_vars, jan_vars,
                   crashes, expiries, hist_vars>>

\* The process of worker w is killed while it handles a job.
Crash(w) ==
    /\ pc[w] \notin {"idle", "dead"}
    /\ crashes < MaxCrashes
    /\ crashes' = crashes + 1
    /\ pc' = [pc EXCEPT ![w] = "dead"]
    /\ loaded_retry' = [loaded_retry EXCEPT ![w] = 0]
    /\ job_id' = [job_id EXCEPT ![w] = NoJob]
    /\ zombie' = IF pc[w] \in {"running", "completed"} /\ zombie[job_id[w]] = "no"
                 THEN [zombie EXCEPT ![job_id[w]] =
                          IF lock[job_id[w]] = NoWorker THEN "expired" ELSE "orphan"]
                 ELSE zombie
    /\ UNCHANGED <<http_vars, store_vars, broker_vars, boot_vars, jan_vars, now,
                   expiries, starts, executions, success_writes, script_calls,
                   script_pushes, not_before,
                   infra_errors, heartbeat_reply>>

\* The key of job j runs out of TTL: always possible once no heartbeat renews
\* it, and MaxExpiries times under a heartbeat whose renewals fail.
ExpireLease(j) ==
    /\ lock[j] # NoWorker
    /\ Heartbeating(j) => expiries < MaxExpiries
    /\ expiries' = IF Heartbeating(j) THEN expiries + 1 ELSE expiries
    /\ lock' = [lock EXCEPT ![j] = NoWorker]
    /\ zombie' = [zombie EXCEPT ![j] = IF @ = "orphan" THEN "expired" ELSE @]
    /\ UNCHANGED <<http_vars, store_vars, ready_queue, delayed_queue, dead_letter_queue,
                   deps_count, reverse_graph, jobs_count, boot_vars, worker_vars,
                   jan_vars, now, crashes, starts, executions, success_writes,
                   script_calls, script_pushes, not_before,
                   infra_errors, heartbeat_reply>>

\* worker.py lines 87-91 provide for a job identifier whose row the store
\* does not have.  No code of the repository deletes a job row; an operator
\* removes the row of a queued job that no worker and no janitor scan has in
\* hand.
DeleteJobRow(j) ==
    /\ boot_pc = "done"
    /\ status[j] = "QUEUED"
    /\ Count(ready_queue, j) > 0
    /\ \A w \in Workers : job_id[w] # j
    /\ j \notin running_job \cup jan_dirty
    /\ status' = [status EXCEPT ![j] = NoRow]
    /\ UNCHANGED <<http_vars, pipelines, run_pipeline, run_status, retry_count,
                   broker_vars, boot_vars, worker_vars, jan_vars, env_vars, hist_vars>>

\* models.py lines 33-39: CANCELLED is a status of a run that no code of the
\* repository writes; an operator marks the run in the store.  The mark is
\* made while no worker has a job in hand, so that every start that follows
\* it follows a pick made after it.
CancelRun ==
    /\ boot_pc = "done"
    /\ run_status = "RUNNING"
    /\ \A w \in Workers : pc[w] \in {"idle", "dead"}
    /\ run_status' = "CANCELLED"
    /\ UNCHANGED <<http_vars, pipelines, run_pipeline, status, retry_count, broker_vars,
                   boot_vars, worker_vars, jan_vars, env_vars, hist_vars>>

-----------------------------------------------------------------------------
(***************************************************************************)
(* Specifications.                                                         *)
(***************************************************************************)
NoRun ==
    /\ run_pipeline = 0 /\ run_status = "NONE"
    /\ status = <<>> /\ retry_count = <<>>
    /\ ready_queue = <<>> /\ delayed_queue = {} /\ dead_letter_queue = <<>>
    /\ lock = <<>> /\ deps_count = <<>> /\ reverse_graph = <<>> /\ jobs_count = 0
    /\ boot_pc = "none" /\ root_jobs = <<>>
    /\ pc = [w \in Workers |-> "idle"]
    /\ job_id = [w \in Workers |-> NoJob]
    /\ loaded_retry = [w \in Workers |-> 0]
    /\ jan_pc = "sleep" /\ running_job = {} /\ jan_dirty = {}
    /\ jobs_to_requeue = <<>> /\ current_time = 0
    /\ now = 0 /\ crashes = 0 /\ expiries = 0
    /\ starts = <<>> /\ executions = <<>> /\ success_writes = <<>>
    /\ script_calls = <<>> /\ script_pushes = <<>> /\ not_before = <<>>
    /\ zombie = <<>> /\ infra_errors = <<>> /\ heartbeat_reply = <<>>

\* Submission: a client composes a request, POSTs it, and a run is triggered.
InitSubmit ==
    /\ pipeline_in \in [name : PipelineNames, definition : {<<>>}]
    /\ phase = "compose"
    /\ response = NoResponse
    /\ pipelines \in {<<>>, <<ExistingPipeline>>}
    /\ NoRun

NextSubmit ==
    \/ AddTask
    \/ \E i \in 1..MaxTasks, d \in DepNames : AddDependency(i, d)
    \/ handle_pipeline_create
    \/ trigger_pipeline_run

SpecSubmit == InitSubmit /\ [][NextSubmit]_vars

-----------------------------------------------------------------------------
(***************************************************************************)
(* Properties of the submission path.                                      *)
(***************************************************************************)
\* Every dependency names a task of the definition.
Closed(def) == \A i \in 1..Len(def) : Range(def[i].deps) \subseteq Keys(def)

\* The dependency relation (parent, child) and its transitive closure.
EdgesOf(def) ==
    UNION {{<<def[i].deps[k], def[i].task>> : k \in 1..Len(def[i].deps)} : i \in 1..Len(def)}

RECURSIVE Closure(_, _)
Closure(R, n) ==
    IF n = 0 THEN R
    ELSE Closure(R \cup {<<p[1][1], p[2][2]>> : p \in {q \in R \X R : q[1][2] = q[2][1]}},
                 n - 1)

HasCycle(def) == \E t \in Keys(def) : <<t, t>> \in Closure(EdgesOf(def), Len(def))

Stored(name) == get_pipeline_by_name(pipelines, name) # {}
Answered == phase = "served" /\ boot_pc = "none"
Duplicate == response.detail.kind = "already_exists"

\* C8. Acyclicity enforcement: for a definition whose dependencies all name
\* existing tasks, POST /pipelines answers 400 with a cycle error exactly when
\* the dependency graph has a directed cycle, and 201 otherwise; a rejected
\* definition is never stored, and no run ever executes a cyclic definition.
AcyclicityEnforcement ==
    LET def == pipeline_in.definition
    IN  /\ (Answered /\ Closed(def) /\ ~Duplicate) =>
               IF HasCycle(def)
               THEN /\ response.code = 400
                    /\ response.detail.kind = "cycle"
                    /\ ~Stored(pipeline_in.name)
               ELSE /\ response.code = 201
                    /\ \E i \in get_pipeline_by_name(pipelines, pipeline_in.name) :
                           pipelines[i].definition = def
        /\ (phase = "served" /\ Closed(def) /\ HasCycle(def)) =>
               /\ \A i \in 1..Len(pipelines) : pipelines[i].definition # def
        /\ run_pipeline # 0 => Closed(RunDef) /\ ~HasCycle(RunDef)

\* A cycle below a root is rejected: found by the count of sorted nodes, not
\* by the absence of roots.
CycleRejected ==
    /\ Answered
    /\ Closed(pipeline_in.definition)
    /\ HasCycle(pipeline_in.definition)
    /\ response = [code |-> 400, detail |-> CycleDetected]

\* C9. Unknown dependency: a definition in which some task lists a dependency
\* that is no key is answered 400 and not stored; unless the name is taken,
\* the error is the invalid-dependency one and names a task of the definition
\* and a dependency of that task that is no key, cycle or no cycle.
UnknownDependencyRejected ==
    LET def == pipeline_in.definition
    IN  /\ (Answered /\ ~Closed(def)) =>
               /\ response.code = 400
               /\ ~Duplicate =>
                      /\ response.detail.kind = "invalid_dependency"
                      /\ response.detail.dependency \notin Keys(def)
                      /\ \E i \in 1..Len(def) :
                             /\ def[i].task = response.detail.task
                             /\ response.detail.dependency \in Range(def[i].deps)
                      /\ ~Stored(pipeline_in.name)
        /\ (phase = "served" /\ ~Closed(def)) =>
               /\ \A i \in 1..Len(pipelines) : pipelines[i].definition # def
               /\ run_pipeline # 0 => RunDef # def

\* A definition with an unknown dependency and no root task is rejected for
\* the dependency.
UnknownDependencyInCycle ==
    /\ Answered
    /\ pipeline_in.definition # <<>>
    /\ \A i \in 1..Len(pipeline_in.definition) : pipeline_in.definition[i].deps # <<>>
    /\ response.code = 400
    /\ response.detail.kind = "invalid_dependency"

-----------------------------------------------------------------------------
(***************************************************************************)
(* Runs.  A stored pipeline is triggered once; workers, the janitor and    *)
(* the environment run beside trigger_pipeline_run.                        *)
(***************************************************************************)
SingleTask == <<Task("a", <<>>)>>
AlwaysFails == <<Task(FailingTask, <<>>)>>
Linear2 == <<Task("a", <<>>), Task("b", <<"a">>)>>
Diamond == <<Task("a", <<>>), Task("b", <<"a">>), Task("c", <<"a">>),
             Task("d", <<"b", "c">>)>>
\* A task that lists its one parent twice.
Twice == <<Task("a", <<>>), Task("b", <<"a", "a">>)>>
\* Two independent tasks, one of them the task whose body raises.
TwoRoots == <<Task("a", <<>>), Task(FailingTask, <<>>)>>

InitRun(definitions) ==
    /\ \E d \in definitions :
          /\ pipeline_in = [name |-> "nightly", definition |-> d]
          /\ pipelines = <<[name |-> "nightly", definition |-> d]>>
    /\ phase = "served"
    /\ response = [code |-> 201, detail |-> Valid]
    /\ NoRun

\* Workers, the janitor, the clock, process kills and lease expiries.
Init == InitRun({SingleTask, AlwaysFails, Linear2})

Next ==
    \/ trigger_pipeline_run
    \/ \E w \in Workers : run_worker(w)
    \/ run_janitor
    \/ Tick
    \/ \E w \in Workers : Crash(w)
    \/ \E j \in Jobs : ExpireLease(j)

Spec == Init /\ [][Next]_vars

\* Failure-free runs: no body raises, no process is killed, no lease expires.
\* No definition of the menu has the task whose body raises, so the except
\* block is never entered and the delayed set stays empty: the worker is its
\* try block and its cleanup, and the janitor's second pass ends at its read.
InitFailureFree == InitRun({Linear2, Diamond, Twice})

NextFailureFree ==
    \/ trigger_pipeline_run
    \/ \E w \in Workers : try_block(w) \/ Cleanup(w)
    \/ zombie_job_checker
    \/ ReadDelayed

SpecFailureFree == InitFailureFree /\ [][NextFailureFree]_vars

\* Single-task runs, one whose body always raises; workers, the janitor and
\* the clock, and no process kill or lease expiry.
InitRetry == InitRun({SingleTask, AlwaysFails})

NextRetry ==
    \/ trigger_pipeline_run
    \/ \E w \in Workers : run_worker(w)
    \/ run_janitor
    \/ Tick

SpecRetry == InitRetry /\ [][NextRetry]_vars

\* The runs of SpecRetry with an operator who may cancel the run.
NextCancel ==
    \/ NextRetry
    \/ CancelRun

SpecCancel == InitRetry /\ [][NextCancel]_vars

\* The runs of SpecRetry with an operator who may remove a queued job's row.
NextNotFound ==
    \/ NextRetry
    \/ \E j \in Jobs : DeleteJobRow(j)

SpecNotFound == InitRetry /\ [][NextNotFound]_vars

\* The runs of SpecRetry with broker calls that may raise.
NextInfra ==
    \/ NextRetry
    \/ \E w \in Workers : InfraError(w)

SpecInfra == InitRetry /\ [][NextInfra]_vars

\* Runs in which two jobs can be in the delayed set, the failure handler
\* taken in its two steps: the clock read and the broker call.
InitPromote == InitRun({TwoRoots})

NextPromote ==
    \/ trigger_pipeline_run
    \/ \E w \in Workers :
           \/ try_block(w)
           \/ InfraError(w)
           \/ FailAndReadClock(w)
           \/ ScheduleRetry(w)
           \/ CommitFailure(w)
           \/ Cleanup(w)
    \/ run_janitor
    \/ Tick

SpecPromote == InitPromote /\ [][NextPromote]_vars

\* The runs of SpecRetry with the heartbeat's rounds and with lease keys that
\* run out of TTL.
NextHeartbeat ==
    \/ NextRetry
    \/ \E w \in Workers : heartbeat(w)
    \/ \E j \in Jobs : ExpireLease(j)

SpecHeartbeat == InitRetry /\ [][NextHeartbeat]_vars

-----------------------------------------------------------------------------
(***************************************************************************)
(* Properties of runs.                                                     *)
(***************************************************************************)
Seeded == boot_pc \in {"seeded", "done"}
HasParents(j) == RunDef[j].deps # <<>>

RECURSIVE SumCalls(_, _)
SumCalls(parents, k) ==
    IF k > Len(parents) THEN 0 ELSE script_calls[parents[k]] + SumCalls(parents, k + 1)

\* C1. Dependency respect: for every parent -> child edge, no worker has
\* written RUNNING for the child unless SUCCESS has been committed for the
\* parent.
DependencyRespect ==
    \A c \in Jobs : \A p \in ParentSet(c) : starts[c] > 0 => success_writes[p] > 0

\* C2. At-most-once success: SUCCESS is committed at most once for a job.
AtMostOnceSuccess == \A j \in Jobs : success_writes[j] <= 1

\* C3. Atomic fan-out: every completion of a parent decrements the child's
\* counter once per dependency entry, whatever the interleaving; the script
\* pushes the child at most once, and has pushed it exactly when the counter
\* has come down to 0; when each parent was completed once the counter is 0
\* and the child was pushed once.
AtomicFanOut ==
    Seeded =>
        \A c \in Jobs : HasParents(c) =>
            /\ deps_count[c] = Len(RunDef[c].deps) - SumCalls(Parents(c), 1)
            /\ script_pushes[c] <= 1
            /\ script_pushes[c] = 1 <=> deps_count[c] <= 0
            /\ (\A p \in ParentSet(c) : script_calls[p] = 1) =>
                   /\ deps_count[c] = 0
                   /\ script_pushes[c] = 1

\* Diamond: b and c were completed by two workers at the same time, each
\* once, and d was pushed once.
DiamondFanOut ==
    /\ RunDef = Diamond
    /\ Seeded
    /\ {job_id[w] : w \in Workers} = {2, 3}
    /\ \A w \in Workers : pc[w] = "completed"
    /\ script_calls[2] = 1 /\ script_calls[3] = 1
    /\ script_pushes = <<0, 1, 1, 1>>

\* C4. Completion in a failure-free run, the part a finite run decides: the
\* run is not SUCCESS while one of its jobs is not SUCCESS.
RunSuccessOnlyAfterJobs ==
    run_status = "SUCCESS" => \A j \in Jobs : status[j] = "SUCCESS"

\* C5. Retry bound: in a single-task run whose body always raises, the body
\* runs at most MAX_RETRY + 1 times, the dead-letter list never holds more
\* than one entry, and once the body has run MAX_RETRY + 1 times and the
\* worker has committed, the job is FAILED, the run is FAILED and the
\* dead-letter list holds exactly the job.
RetryBound ==
    RunDef = AlwaysFails /\ Seeded =>
        /\ executions[1] <= MAX_RETRY + 1
        /\ Len(dead_letter_queue) <= 1
        /\ status[1] = "FAILED" =>
               /\ executions[1] = MAX_RETRY + 1
               /\ run_status = "FAILED"
               /\ dead_letter_queue = <<1>>

\* C6. Zombie recovery: when a worker was killed after it wrote RUNNING for a
\* job and the lease key has run out, the first janitor tick that starts
\* afterwards finds the job and pushes it to the ready list.
ZombieRequeued == \A j \in Jobs : zombie[j] # "missed"

\* C7. Backoff schedule: before the due time of a job's scheduled retry the
\* job is not in the ready list and no worker has it in hand, but the one that
\* has just failed it.
BackoffSchedule ==
    \A j \in Jobs : now < not_before[j] =>
        /\ j \notin Range(ready_queue)
        /\ \A w \in Workers : job_id[w] = j => pc[w] \in {"failed", "cleanup"}

\* No handler is under way: the trigger has answered, the janitor sleeps and
\* every worker is blocked in BLPOP or gone.
Quiescent ==
    /\ boot_pc = "done"
    /\ jan_pc = "sleep"
    /\ \A w \in Workers : pc[w] \in {"idle", "dead"}

\* C10. Run status accounting, read where no handler is under way: the run is
\* SUCCESS iff all its jobs are SUCCESS, and FAILED iff one of them is FAILED.
RunStatusAccounting ==
    Quiescent =>
        /\ run_status = "SUCCESS" <=> \A j \in Jobs : status[j] = "SUCCESS"
        /\ run_status = "FAILED" <=> \E j \in Jobs : status[j] = "FAILED"

Terminal == {"SUCCESS", "FAILED"}

\* C11. Jobs-remaining accounting, read where no handler is under way: the
\* counter run:<id>:jobs_count is the number of jobs that are neither SUCCESS
\* nor FAILED, and it is never negative.
JobsRemainingAccounting ==
    /\ jobs_count >= 0
    /\ Quiescent => jobs_count = Cardinality({j \in Jobs : status[j] \notin Terminal})

\* A worker has popped job j and has not yet written RUNNING for it.
InHand(j) == \E w \in Workers : job_id[w] = j /\ pc[w] \in {"popped", "locked"}

Delayed(j) == Cardinality({e \in delayed_queue : e.job = j})

\* C12. QUEUED invariant: a job that is QUEUED in the store, and that no
\* worker has just popped, has its identifier exactly once in the ready list
\* and the delayed set together.
QueuedExactlyOnce ==
    \A j \in Jobs : (status[j] = "QUEUED" /\ ~InHand(j)) =>
        Count(ready_queue, j) + Delayed(j) = 1

\* C13. RUNNING/lease invariant, in runs where no lease key runs out of TTL:
\* a job that is RUNNING in the store has a lease key bound to a worker.
RunningHasLease ==
    \A j \in Jobs : status[j] = "RUNNING" => lock[j] \in Workers

\* The parents of job j, per entry of its dependency list, that are not
\* SUCCESS in the store.
RECURSIVE PendingParents(_, _)
PendingParents(parents, k) ==
    IF k > Len(parents) THEN 0
    ELSE (IF status[parents[k]] = "SUCCESS" THEN 0 ELSE 1) + PendingParents(parents, k + 1)

\* A worker is between the completion script and the SUCCESS commit of job p.
Completing(p) == \E w \in Workers : job_id[w] = p /\ pc[w] = "completed"

\* C14. Dependency-counter invariant: once the trigger has answered, the
\* counter of a job that no worker has started is the number of its parents,
\* per dependency entry, that are not SUCCESS; read where no worker is between
\* the script and the commit of one of the parents.
DependencyCounter ==
    boot_pc = "done" =>
        \A c \in Jobs :
            (starts[c] = 0 /\ \A p \in ParentSet(c) : ~Completing(p)) =>
                deps_count[c] = PendingParents(Parents(c), 1)

\* C15. FAILED only after the retry bound: a job that is FAILED in the store
\* has an attempt count above MAX_RETRY.
FailedOnlyAfterBound ==
    \A j \in Jobs : status[j] = "FAILED" => retry_count[j] > MAX_RETRY

\* C16. The janitor never races destructively with a live worker: the commit
\* that ends a zombie scan leaves every SUCCESS and every FAILED job as it is.
JanitorKeepsOutcome ==
    [][(jan_pc = "scan" /\ jan_pc' = "delayed") =>
           \A j \in Jobs : status[j] \in Terminal => status'[j] = status[j]]_vars

\* Worker w commits SUCCESS, FAILED or an attempt count, or schedules a retry.
WritesOutcome(w) ==
    \/ pc[w] = "completed" /\ pc'[w] = "decr"
    \/ pc[w] = "running" /\ pc'[w] = "failed"
    \/ pc[w] = "failed" /\ pc'[w] = "cleanup"

\* C17. Only the lease holder writes an outcome: when a worker commits
\* SUCCESS or FAILED for a job, or schedules its retry, the job's lease key
\* exists and its value is that worker.
OutcomeByLeaseHolder ==
    [][\A w \in Workers : WritesOutcome(w) => lock[job_id[w]] = w]_vars

JobLifecycle ==
    {<<"PENDING", "QUEUED">>, <<"QUEUED", "RUNNING">>, <<"RUNNING", "SUCCESS">>,
     <<"RUNNING", "RETRYING">>, <<"RETRYING", "QUEUED">>, <<"RUNNING", "FAILED">>,
     <<"RUNNING", "QUEUED">>}

\* C19. Job lifecycle: every change of a job's store status is a step of
\* PENDING -> QUEUED -> RUNNING -> {SUCCESS, RETRYING -> QUEUED, FAILED}, or
\* the reclaim RUNNING -> QUEUED.
JobStatusSteps ==
    [][\A j \in Jobs : (j \in 1..Len(status') /\ status'[j] # status[j]) =>
           <<status[j], status'[j]>> \in JobLifecycle]_vars

RunLifecycle ==
    {<<"PENDING", "RUNNING">>, <<"RUNNING", "SUCCESS">>, <<"RUNNING", "FAILED">>}

\* C20. Run lifecycle: a run's status only moves PENDING -> RUNNING and from
\* there to SUCCESS or to FAILED, which it never leaves.
RunStatusSteps ==
    [][(run_status # "NONE" /\ run_status' # run_status) =>
           <<run_status, run_status'>> \in RunLifecycle]_vars

\* C21. Cancellation observed at the next pick: once the run is marked
\* CANCELLED in the store, no worker writes RUNNING for a job of the run.
NoStartAfterCancel ==
    [][\A w \in Workers :
           (run_status = "CANCELLED" /\ pc[w] = "locked") => pc'[w] # "running"]_vars

\* main.py lines 114-139 write the three keys of the run; the one DEL of the
\* repository (worker.py line 177) names a lock key, and no key of the run is
\* given a TTL: from the bootstrap transaction on, the keys exist.
run_keys ==
    IF boot_pc \in {"seeded", "done"}
    THEN {"deps_count", "reverse_graph", "jobs_count"}
    ELSE {}

\* C22. Per-run broker state is cleaned at termination: where the run is
\* SUCCESS or FAILED and nothing is left to do for it (no handler under way,
\* nothing queued or delayed), its deps_count, reverse_graph and jobs_count
\* keys are gone from the broker.
RunKeysCleaned ==
    (/\ Quiescent
     /\ run_status \in Terminal
     /\ ready_queue = <<>>
     /\ delayed_queue = {}) => run_keys = {}

\* C23. Bootstrap materialisation: a triggered run has one job per task of the
\* definition; the bootstrap transaction sets jobs_count to the number of
\* jobs, deps_count of each job to the length of its task's dependency list,
\* and reverse_graph of each job to the jobs of the tasks that list its task
\* as a dependency, once per listing (the empty sequence for a leaf); before
\* the transaction none of the three is written.
BootstrapMaterialisation ==
    /\ run_pipeline # 0 => Len(status) = Len(RunDef)
    /\ boot_pc = "created" =>
           /\ jobs_count = 0
           /\ \A j \in Jobs : deps_count[j] = 0 /\ reverse_graph[j] = <<>>
    /\ Seeded =>
           /\ jobs_count = Len(status)
           /\ \A j \in Jobs : deps_count[j] = Len(RunDef[j].deps)
           /\ \A p \in Jobs :
                  /\ Range(reverse_graph[p]) \subseteq Jobs
                  /\ \A c \in Jobs : Count(reverse_graph[p], c)
                                       = Count(RunDef[c].deps, RunDef[p].task)

\* A seeded run in which one job has two downstream entries and another, with
\* a dependency of its own, has none.
FanOutSeeded ==
    /\ Seeded
    /\ \E p, c \in Jobs :
           /\ Len(reverse_graph[p]) = 2
           /\ reverse_graph[c] = <<>>
           /\ deps_count[c] > 0

\* C24. Bootstrap enqueues exactly the roots: the trigger handler pushes the
\* job of every task with no dependencies once and no other job; when it
\* returns, the pushed jobs are QUEUED and all others are still PENDING.
BootstrapEnqueuesRoots ==
    /\ boot_pc \in {"none", "created", "rejected"} => ready_queue = <<>>
    /\ Seeded =>
           \A j \in Jobs : Count(ready_queue, j) <= (IF HasParents(j) THEN 0 ELSE 1)
    /\ boot_pc = "done" =>
           \A j \in Jobs :
               IF HasParents(j)
               THEN Count(ready_queue, j) = 0 /\ status[j] = "PENDING"
               ELSE Count(ready_queue, j) = 1 /\ status[j] = "QUEUED"

\* The handler has returned for a run with two roots and a job below them.
TwoRootsEnqueued ==
    /\ boot_pc = "done"
    /\ Len(ready_queue) = 2
    /\ \E j \in Jobs : HasParents(j)

\* C25. Bootstrap ordering: the run and its jobs are persisted before any key
\* of the run is written, the maps are written before any root is pushed, and
\* a root's QUEUED status is in the store before its identifier is in the
\* ready list.
BootstrapOrdering ==
    /\ run_keys # {} => run_pipeline # 0 /\ Len(status) = Len(RunDef)
    /\ ready_queue # <<>> => run_keys # {}
    /\ \A i \in 1..Len(ready_queue) : status[ready_queue[i]] = "QUEUED"

\* The value HINCRBY returns for the i-th identifier of argv, and the
\* identifiers for which it returns 0, in the order of argv.
PostDecrement(argv, i) == deps_count[argv[i]] - Count(SubSeq(argv, 1, i), argv[i])

RECURSIVE ZeroedFrom(_, _)
ZeroedFrom(argv, i) ==
    IF i > Len(argv) THEN <<>>
    ELSE (IF PostDecrement(argv, i) = 0 THEN <<argv[i]>> ELSE <<>>)
         \o ZeroedFrom(argv, i + 1)

\* C26. Completion script semantics: one invocation with the downstream
\* identifiers of the completed job lowers each listed counter by 1 per
\* occurrence and no other counter, appends to the ready list exactly the
\* identifiers whose counter it brought to 0, in argument order, and returns
\* them; the reverse graph, the jobs counter, the delayed set, the dead-letter
\* list and the lease keys are as before, all in one step.
ScriptSemantics ==
    [][\A w \in Workers :
           (pc[w] = "running" /\ pc'[w] = "completed") =>
               LET argv == reverse_graph[job_id[w]]
               IN  /\ \A j \in Jobs : deps_count'[j] = deps_count[j] - Count(argv, j)
                   /\ ready_queue' = ready_queue \o ZeroedFrom(argv, 1)
                   /\ \A j \in Jobs : script_pushes'[j]
                                        = script_pushes[j] + Count(ZeroedFrom(argv, 1), j)
                   /\ UNCHANGED <<reverse_graph, jobs_count, delayed_queue,
                                  dead_letter_queue, lock>>]_vars

\* The parent listed twice has completed once: the child's counter came from
\* 2 to 0 in one invocation and the child was pushed once.
TwiceListedChildPushed ==
    /\ RunDef = Twice
    /\ script_calls = <<1, 0>>
    /\ deps_count = <<0, 0>>
    /\ script_pushes = <<0, 1>>
    /\ \E w \in Workers : pc[w] = "completed" /\ job_id[w] = 1

\* C27. At-most-once push per child: however often the completion script is
\* invoked in a run, repeated invocations for the same parent included, it
\* pushes each job at most once.
AtMostOncePush == \A c \in Jobs : script_pushes[c] <= 1

\* The script has run twice for the same parent and has pushed the child once.
RepeatedCompletionOnePush ==
    \E c \in Jobs : \E p \in ParentSet(c) :
        script_calls[p] = 2 /\ script_pushes[c] = 1

\* C28. Dependency counters never go negative: every entry of deps_count is
\* at least 0 in every reachable state.
CountersNonNegative == \A j \in Jobs : deps_count[j] >= 0

\* C29. Lease denied is discarded silently: a worker whose SET NX finds the
\* job's lease key taken changes nothing in the store or the broker and is
\* back at the blocking pop.
LeaseDeniedDiscarded ==
    [][\A w \in Workers :
           (pc[w] = "popped" /\ lock[job_id[w]] # NoWorker /\ pc'[w] # "popped") =>
               /\ pc'[w] = "idle"
               /\ UNCHANGED <<store_vars, broker_vars>>]_vars

\* The workers that have written RUNNING for job j and have not finished
\* their cleanup for it.
RunningWriters(j) ==
    {w \in Workers : job_id[w] = j
                     /\ pc[w] \in {"running", "completed", "decr", "mark_run",
                                   "failed", "cleanup"}}

\* C30. At most one RUNNING writer: at any time at most one worker is between
\* writing RUNNING for a given job and finishing its cleanup for that job.
OneRunningWriter == \A j \in Jobs : Cardinality(RunningWriters(j)) <= 1

\* C31. Success path order: a worker calls the completion script for a job
\* only after it has committed SUCCESS for it, decrements jobs_count after
\* both, and marks the run SUCCESS exactly when the decrement returned 0.
SuccessPathOrder ==
    [][\A w \in Workers :
           /\ (pc[w] = "running" /\ pc'[w] = "completed") =>
                  status[job_id[w]] = "SUCCESS"
           /\ (pc[w] = "decr" /\ pc'[w] \in {"mark_run", "cleanup"}) =>
                  /\ script_calls[job_id[w]] > 0
                  /\ success_writes[job_id[w]] > 0
                  /\ pc'[w] = "mark_run" <=> jobs_count' = 0
           /\ (run_status # "SUCCESS" /\ run_status' = "SUCCESS") =>
                  pc[w] = "mark_run" \/ pc'[w] = pc[w]]_vars

\* C32. Failure path below the bound: when the body raised and the
\* incremented attempt count is at most MAX_RETRY, the handler's commit leaves
\* the job RETRYING in the store, and the job is not RUNNING when the worker
\* has released the lease.
RetryingBelowBound ==
    [][\A w \in Workers :
           /\ (pc[w] = "failed" /\ pc'[w] = "cleanup" /\ loaded_retry[w] <= MAX_RETRY) =>
                  status'[job_id[w]] = "RETRYING"
           /\ (pc[w] = "cleanup" /\ pc'[w] = "idle" /\ TaskOf(job_id[w]) = FailingTask) =>
                  status'[job_id[w]] # "RUNNING"]_vars

HoldsLease(w) ==
    pc[w] \in {"locked", "running", "completed", "decr", "mark_run", "failed", "cleanup"}

\* C33. Cleanup on every exit path: every step by which a worker that
\* acquired a job's lease leaves its iteration deletes the job's lease key and
\* has the worker back at the pop, whether the job succeeded, failed or had no
\* row.
CleanupOnEveryExit ==
    [][\A w \in Workers :
           (HoldsLease(w) /\ ~HoldsLease(w)') =>
               /\ pc'[w] = "idle"
               /\ lock'[job_id[w]] = NoWorker]_vars

\* C34. Infrastructure errors do not release the lease: with no lease running
\* out of TTL, the lease key of a job for which a broker call raised while a
\* worker held its lease stays in place.
InfraErrorKeepsLease ==
    \A j \in Jobs : infra_errors[j] > 0 => lock[j] # NoWorker

\* C35. Delay promotion is an atomic move: the janitor's promotion that read
\* the clock at current_time removes from the delayed set exactly the entries
\* due by then and appends to the ready list exactly the identifiers it
\* removes, once each.
DelayPromotionAtomic ==
    [][(jan_pc = "requeue" /\ jan_pc' = "sleep") =>
           LET removed == delayed_queue \ delayed_queue'
               pushed == SubSeq(ready_queue', Len(ready_queue) + 1, Len(ready_queue'))
           IN  /\ delayed_queue' \subseteq delayed_queue
               /\ removed = {e \in delayed_queue : e.due <= current_time}
               /\ ready_queue' = ready_queue \o pushed
               /\ \A j \in Jobs :
                      Count(pushed, j) = Cardinality({e \in removed : e.job = j})]_vars

\* C36. The attempt count is incremented only on a task-body exception: every
\* change of a job's retry_count is an increase by exactly 1, committed by a
\* worker in whose hands the job's body raised.
AttemptCountOnlyOnBodyFailure ==
    [][\A j \in Jobs :
           retry_count'[j] # retry_count[j] =>
               /\ retry_count'[j] = retry_count[j] + 1
               /\ TaskOf(j) = FailingTask
               /\ \E w \in Workers : job_id[w] = j /\ pc[w] = "failed"]_vars

\* C37. A worker never deletes a lease it does not own: every step by which
\* a worker removes a job's lease key finds that worker's identity as the
\* key's value.
DeletesOnlyOwnLease ==
    [][\A w \in Workers : \A j \in Jobs :
           (job_id[w] = j /\ pc'[w] # pc[w] /\ lock[j] # NoWorker /\ lock'[j] = NoWorker) =>
               lock[j] = w]_vars

\* C38. The heartbeat never outlives or resurrects a lease: a lease key comes
\* into being only by a worker's SET NX, never by a renewal, and every
\* renewal for a job is made while a worker that started the job has not yet
\* finished its cleanup for it.
HeartbeatNeverResurrects ==
    [][\A j \in Jobs :
           /\ (lock[j] = NoWorker /\ lock'[j] # NoWorker) =>
                  \E w \in Workers : /\ pc[w] = "popped" /\ pc'[w] = "locked"
                                     /\ job_id[w] = j /\ lock'[j] = w
           /\ heartbeat_reply'[j] # heartbeat_reply[j] =>
                  \E w \in Workers : job_id[w] = j /\ HoldsLease(w) /\ pc'[w] = pc[w]]_vars

\* A renewal was attempted for a job whose key had run out, and the key is
\* still absent while the worker goes on.
RenewalMissedExpiredKey ==
    \E w \in Workers :
        /\ pc[w] \in {"running", "completed", "failed"}
        /\ heartbeat_reply[job_id[w]] = 0
        /\ lock[job_id[w]] = NoWorker

\* C39. Repeated dependency entries: where a task lists one parent n >= 2
\* times and nothing else, the validator accepts the definition, the
\* bootstrap sets the child's counter to n and lists the child n times under
\* the parent, and the parent's first completion brings the counter to 0 and
\* pushes the child once.
RepeatedDependencyEntries ==
    \A p, c \in Jobs :
        LET n == Count(RunDef[c].deps, TaskOf(p))
        IN  (n >= 2 /\ Len(RunDef[c].deps) = n) =>
                /\ validate_pipeline_dag(RunDef) = Valid
                /\ Seeded => Count(reverse_graph[p], c) = n
                /\ (Seeded /\ script_calls[p] = 0) =>
                       deps_count[c] = n /\ script_pushes[c] = 0
                /\ script_calls[p] = 1 =>
                       deps_count[c] = 0 /\ script_pushes[c] = 1

\* The child that lists its parent twice has been started after the parent's
\* one completion.
TwiceListedChildStarted ==
    /\ RunDef = Twice
    /\ script_calls[1] = 1
    /\ starts[2] = 1
    /\ status[2] = "RUNNING"

=============================================================================
